---- MODULE Spec2Model ----
\* A model of the separate-chaining hash table of src/src/lib.rs
\* (HashMap<K, V>, its iterator Iter, and the operations on them).
\*
\* Keys and values are small integers.  Option<T> is modelled as a sequence
\* of length at most one: None is <<>> and Some(x) is <<x>>.  A pair (k, v)
\* is the tuple <<k, v>>.  Bucket indices and iterator positions are 0-based
\* as in the source; a TLA+ sequence is indexed from 1, so bucket i of the
\* source is bs[i + 1].
EXTENDS Integers, Sequences, FiniteSets, TLC

\* ---------------------------------------------------------------- bounds
MaxKey == 2          \* keys are 1..MaxKey
MaxVal == 2          \* values are 1..MaxVal
MaxHash == 3         \* hash values are 0..MaxHash
MaxRemoved == 2      \* SpecHist: successful removals that are counted

Keys == 1..MaxKey
Vals == 1..MaxVal

\* ------------------------------------------------------ program constants
INITIAL_BUCKETS == 1

VARIABLES
    hasher,      \* the function key |-> DefaultHasher digest of key (fixed)
    buckets,     \* HashMap.buckets : Vec<Vec<(K, V)>>
    len,         \* HashMap.len
    iter,        \* the live Iter, if any: [live, bucket, at]
    yielded,     \* the pairs the live Iter has returned so far, in order
    op,          \* the last call: [name, key, value, ret, resized]
    panicked,    \* TRUE once a call has panicked
    hist,        \* history counters (maintained by SpecHist only)
    amap         \* the finite function key |-> value the calls so far define

vars == <<hasher, buckets, len, iter, yielded, op, panicked, hist, amap>>

None == <<>>
Some(x) == <<x>>

\* ------------------------------------------------------------ pure helpers
\* K: Hash + Eq.  Two key objects can be equal without being the same object
\* (two Strings with the same text).  A key object is an integer: k in Keys,
\* or -k, another object that is == to k and has the same digest.  KeyOf is
\* what == and Hash see of a key object.
KeyOf(key) == IF key < 0 THEN 0 - key ELSE key

\* The position (1-based) of the first pair of chain whose key equals key,
\* 0 when there is none: the linear scans of insert, remove and get.
RECURSIVE PositionFrom(_, _, _)
PositionFrom(chain, key, i) ==
    IF i > Len(chain) THEN 0
    ELSE IF KeyOf(chain[i][1]) = KeyOf(key) THEN i
    ELSE PositionFrom(chain, key, i + 1)

position(chain, key) == PositionFrom(chain, key, 1)

\* Vec::remove in place of swap_remove: the later elements shift down.
swap_remove_shift(chain, i) ==
    [j \in 1..(Len(chain) - 1) |-> IF j < i THEN chain[j] ELSE chain[j + 1]]

\* Vec::swap_remove(index) with a 1-based index: the last element takes the
\* place of the removed one and the vector shrinks by one.
swap_remove(chain, i) ==
    LET n == Len(chain)
    IN  [j \in 1..(n - 1) |-> IF j = i THEN chain[n] ELSE chain[j]]

\* hasher.finish() % n
hash_mod(h, key, n) == h[KeyOf(key)] % n

\* A HashMap value: the two fields of the struct.
Map(bs, n) == [buckets |-> bs, len |-> n]

\* HashMap::get_bucket
get_bucket(h, self, key) ==
    IF Len(self.buckets) = 0
    THEN None
    ELSE Some(hash_mod(h, key, Len(self.buckets)))

\* A drain that leaves out the first pair of every chain (drain(1..)).
RECURSIVE drain_skip_first(_)
drain_skip_first(bs) ==
    IF Len(bs) = 0 THEN <<>>
    ELSE (IF Len(Head(bs)) = 0 THEN <<>> ELSE Tail(Head(bs)))
         \o drain_skip_first(Tail(bs))

\* buckets.iter_mut().flat_map(|bucket| bucket.drain(..)): the pairs of all
\* chains, bucket by bucket, each chain front to back.
RECURSIVE drain_all(_)
drain_all(bs) ==
    IF Len(bs) = 0 THEN <<>> ELSE Head(bs) \o drain_all(Tail(bs))

\* A rehash that reduces the hash by the old bucket count (half the new one).
RECURSIVE rehash_into_old_count(_, _, _)
rehash_into_old_count(h, new_buckets, pairs) ==
    IF Len(pairs) = 0 THEN new_buckets
    ELSE LET kv == Head(pairs)
             nbucket_index == hash_mod(h, kv[1], Len(new_buckets) \div 2)
         IN  rehash_into_old_count(h,
                 [new_buckets EXCEPT ![nbucket_index + 1] = Append(@, kv)],
                 Tail(pairs))

\* The loop of resize_buckets: each drained pair is pushed onto the chain of
\* the new array selected by its hash.
RECURSIVE rehash_into(_, _, _)
rehash_into(h, new_buckets, pairs) ==
    IF Len(pairs) = 0 THEN new_buckets
    ELSE LET kv == Head(pairs)
             nbucket_index == hash_mod(h, kv[1], Len(new_buckets))
         IN  rehash_into(h,
                 [new_buckets EXCEPT ![nbucket_index + 1] = Append(@, kv)],
                 Tail(pairs))

\* A growth by one bucket in place of a doubling.
target_size_plus_one(n) == IF n = 0 THEN INITIAL_BUCKETS ELSE n + 1

\* match self.buckets.len() { 0 => INITIAL_BUCKETS, n => n * 2 }
target_size(n) == IF n = 0 THEN INITIAL_BUCKETS ELSE n * 2

\* HashMap::resize_buckets: self after the call.
resize_buckets(h, self) ==
    LET new_buckets == [i \in 1..target_size(Len(self.buckets)) |-> <<>>]
    IN  [self EXCEPT
            !.buckets = rehash_into(h, new_buckets, drain_all(self.buckets))]

\* A load-factor test without the is_empty case.
needs_resize_no_empty(self) ==
    self.len > (3 * Len(self.buckets)) \div 4

\* A load-factor test with >= in place of >.
needs_resize_ge(self) ==
    Len(self.buckets) = 0 \/ self.len >= (3 * Len(self.buckets)) \div 4

\* A load-factor test that compares len with the bucket count itself.
needs_resize_full(self) ==
    Len(self.buckets) = 0 \/ self.len > Len(self.buckets)

\* The load-factor test at the head of insert.
needs_resize(self) ==
    Len(self.buckets) = 0 \/ self.len > (3 * Len(self.buckets)) \div 4

\* The outcome of a call on &mut self: self after the call, the returned
\* Option, whether the call panicked, and whether it resized the array.
Outcome(self, ret, panic, resized) ==
    [buckets |-> self.buckets, len |-> self.len,
     ret |-> ret, panic |-> panic, resized |-> resized]

\* insert that returns the old value of a present key without storing the
\* new one.
insert_no_replace(h, self, key, value) ==
    LET resized == needs_resize(self)
        s1 == IF resized THEN resize_buckets(h, self) ELSE self
        bi == get_bucket(h, s1, key)
    IN  IF bi = None \/ bi[1] >= Len(s1.buckets)
        THEN Outcome(s1, None, TRUE, resized)
        ELSE LET bucket == s1.buckets[bi[1] + 1]
                 p == position(bucket, key)
             IN  IF p > 0
                 THEN Outcome(s1, Some(bucket[p][2]), FALSE, resized)
                 ELSE Outcome([s1 EXCEPT
                                  !.buckets[bi[1] + 1] = Append(@, <<key, value>>),
                                  !.len = @ + 1],
                              None, FALSE, resized)

\* insert that counts the entry before it scans the chain, so that an
\* update counts too.
insert_count_update(h, self, key, value) ==
    LET resized == needs_resize(self)
        s0 == IF resized THEN resize_buckets(h, self) ELSE self
        s1 == [s0 EXCEPT !.len = @ + 1]
        bi == get_bucket(h, s1, key)
    IN  IF bi = None \/ bi[1] >= Len(s1.buckets)
        THEN Outcome(s1, None, TRUE, resized)
        ELSE LET bucket == s1.buckets[bi[1] + 1]
                 p == position(bucket, key)
             IN  IF p > 0
                 THEN Outcome([s1 EXCEPT !.buckets[bi[1] + 1][p][2] = value],
                              Some(bucket[p][2]), FALSE, resized)
                 ELSE Outcome([s1 EXCEPT
                                  !.buckets[bi[1] + 1] = Append(@, <<key, value>>)],
                              None, FALSE, resized)

\* insert that picks the chain before it resizes (chain 0 for the empty
\* table), so that the chain is the one of the old bucket count.
insert_stale_index(h, self, key, value) ==
    LET resized == needs_resize(self)
        b0 == get_bucket(h, self, key)
        s1 == IF resized THEN resize_buckets(h, self) ELSE self
        bi == IF b0 = None THEN Some(0) ELSE b0
    IN  IF bi[1] >= Len(s1.buckets)
        THEN Outcome(s1, None, TRUE, resized)
        ELSE LET bucket == s1.buckets[bi[1] + 1]
                 p == position(bucket, key)
             IN  IF p > 0
                 THEN Outcome([s1 EXCEPT !.buckets[bi[1] + 1][p][2] = value],
                              Some(bucket[p][2]), FALSE, resized)
                 ELSE Outcome([s1 EXCEPT
                                  !.buckets[bi[1] + 1] = Append(@, <<key, value>>),
                                  !.len = @ + 1],
                              None, FALSE, resized)

\* insert that overwrites the whole stored pair on an update
\* (*entry = (key, value)).
insert_replace_pair(h, self, key, value) ==
    LET resized == needs_resize(self)
        s1 == IF resized THEN resize_buckets(h, self) ELSE self
        bi == get_bucket(h, s1, key)
    IN  IF bi = None \/ bi[1] >= Len(s1.buckets)
        THEN Outcome(s1, None, TRUE, resized)
        ELSE LET bucket == s1.buckets[bi[1] + 1]
                 p == position(bucket, key)
             IN  IF p > 0
                 THEN Outcome([s1 EXCEPT !.buckets[bi[1] + 1][p] = <<key, value>>],
                              Some(bucket[p][2]), FALSE, resized)
                 ELSE Outcome([s1 EXCEPT
                                  !.buckets[bi[1] + 1] = Append(@, <<key, value>>),
                                  !.len = @ + 1],
                              None, FALSE, resized)

\* HashMap::insert.  It panics when get_bucket returns None (the expect) or
\* when the bucket index is out of range.
insert(h, self, key, value) ==
    LET resized == needs_resize(self)
        s1 == IF resized THEN resize_buckets(h, self) ELSE self
        bi == get_bucket(h, s1, key)
    IN  IF bi = None \/ bi[1] >= Len(s1.buckets)
        THEN Outcome(s1, None, TRUE, resized)
        ELSE LET bucket == s1.buckets[bi[1] + 1]
                 p == position(bucket, key)
             IN  IF p > 0
                 THEN Outcome([s1 EXCEPT !.buckets[bi[1] + 1][p][2] = value],
                              Some(bucket[p][2]), FALSE, resized)
                 ELSE Outcome([s1 EXCEPT
                                  !.buckets[bi[1] + 1] = Append(@, <<key, value>>),
                                  !.len = @ + 1],
                              None, FALSE, resized)

\* remove that takes the last pair of the chain (pop) instead of the pair
\* found.
remove_pop(h, self, key) ==
    LET bi == get_bucket(h, self, key)
    IN  IF bi = None
        THEN Outcome(self, None, FALSE, FALSE)
        ELSE LET bucket == self.buckets[bi[1] + 1]
                 index == position(bucket, key)
             IN  IF index = 0
                 THEN Outcome(self, None, FALSE, FALSE)
                 ELSE IF self.len = 0
                 THEN Outcome(self, None, TRUE, FALSE)
                 ELSE Outcome([self EXCEPT
                                  !.len = @ - 1,
                                  !.buckets[bi[1] + 1] =
                                      SubSeq(@, 1, Len(@) - 1)],
                              Some(bucket[Len(bucket)]), FALSE, FALSE)

\* remove that forgets len -= 1.
remove_no_dec(h, self, key) ==
    LET bi == get_bucket(h, self, key)
    IN  IF bi = None
        THEN Outcome(self, None, FALSE, FALSE)
        ELSE LET bucket == self.buckets[bi[1] + 1]
                 index == position(bucket, key)
             IN  IF index = 0
                 THEN Outcome(self, None, FALSE, FALSE)
                 ELSE Outcome([self EXCEPT
                                  !.buckets[bi[1] + 1] = swap_remove(@, index)],
                              Some(bucket[index]), FALSE, FALSE)

\* remove that decrements len before it looks the key up in the chain.
remove_early_dec(h, self, key) ==
    LET bi == get_bucket(h, self, key)
    IN  IF bi = None
        THEN Outcome(self, None, FALSE, FALSE)
        ELSE LET bucket == self.buckets[bi[1] + 1]
                 index == position(bucket, key)
             IN  IF self.len = 0
                 THEN Outcome(self, None, TRUE, FALSE)
                 ELSE IF index = 0
                 THEN Outcome([self EXCEPT !.len = @ - 1], None, FALSE, FALSE)
                 ELSE Outcome([self EXCEPT
                                  !.len = @ - 1,
                                  !.buckets[bi[1] + 1] = swap_remove(@, index)],
                              Some(bucket[index]), FALSE, FALSE)

\* remove that releases the whole bucket array when the chain it took the
\* pair from becomes empty.
remove_clear_buckets(h, self, key) ==
    LET bi == get_bucket(h, self, key)
    IN  IF bi = None
        THEN Outcome(self, None, FALSE, FALSE)
        ELSE LET bucket == self.buckets[bi[1] + 1]
                 index == position(bucket, key)
             IN  IF index = 0
                 THEN Outcome(self, None, FALSE, FALSE)
                 ELSE IF self.len = 0
                 THEN Outcome(self, None, TRUE, FALSE)
                 ELSE Outcome([self EXCEPT
                                  !.len = @ - 1,
                                  !.buckets = IF Len(bucket) = 1
                                              THEN <<>>
                                              ELSE [@ EXCEPT ![bi[1] + 1] =
                                                       swap_remove(@, index)]],
                              Some(bucket[index]), FALSE, FALSE)

\* HashMap::remove.  len is a usize: len -= 1 at zero is an arithmetic
\* overflow, a panic under overflow checks.
remove(h, self, key) ==
    LET bi == get_bucket(h, self, key)
    IN  IF bi = None
        THEN Outcome(self, None, FALSE, FALSE)
        ELSE LET bucket == self.buckets[bi[1] + 1]
                 index == position(bucket, key)
             IN  IF index = 0
                 THEN Outcome(self, None, FALSE, FALSE)
                 ELSE IF self.len = 0
                 THEN Outcome(self, None, TRUE, FALSE)
                 ELSE Outcome([self EXCEPT
                                  !.len = @ - 1,
                                  !.buckets[bi[1] + 1] = swap_remove(@, index)],
                              Some(bucket[index]), FALSE, FALSE)

\* get that takes the first pair of the chain without comparing the keys.
get_first_in_chain(h, self, key) ==
    LET bi == get_bucket(h, self, key)
    IN  IF bi = None THEN None
        ELSE LET bucket == self.buckets[bi[1] + 1]
             IN  IF Len(bucket) = 0 THEN None ELSE Some(bucket[1][2])

\* HashMap::get
get(h, self, key) ==
    LET bi == get_bucket(h, self, key)
    IN  IF bi = None THEN None
        ELSE LET bucket == self.buckets[bi[1] + 1]
                 p == position(bucket, key)
             IN  IF p = 0 THEN None ELSE Some(bucket[p][2])

\* HashMap::contains_key
contains_key(h, self, key) == get(h, self, key) # None

\* HashMap::len
map_len(self) == self.len

\* HashMap::is_empty
is_empty(self) == self.len = 0

\* Iter::next that returns the pair without self.at += 1.
RECURSIVE iter_next_no_advance(_, _, _)
iter_next_no_advance(bs, bucket, at) ==
    IF bucket < Len(bs)
    THEN IF at < Len(bs[bucket + 1])
         THEN [ret |-> Some(bs[bucket + 1][at + 1]), bucket |-> bucket, at |-> at]
         ELSE iter_next_no_advance(bs, bucket + 1, 0)
    ELSE [ret |-> None, bucket |-> bucket, at |-> at]

\* Iter::next that walks each chain from its back to its front.
RECURSIVE iter_next_backwards(_, _, _)
iter_next_backwards(bs, bucket, at) ==
    IF bucket < Len(bs)
    THEN IF at < Len(bs[bucket + 1])
         THEN [ret |-> Some(bs[bucket + 1][Len(bs[bucket + 1]) - at]),
               bucket |-> bucket, at |-> at + 1]
         ELSE iter_next_backwards(bs, bucket + 1, 0)
    ELSE [ret |-> None, bucket |-> bucket, at |-> at]

\* Iter::next that moves to the next bucket without resetting at.
RECURSIVE iter_next_keep_at(_, _, _)
iter_next_keep_at(bs, bucket, at) ==
    IF bucket < Len(bs)
    THEN IF at < Len(bs[bucket + 1])
         THEN [ret |-> Some(bs[bucket + 1][at + 1]), bucket |-> bucket, at |-> at + 1]
         ELSE iter_next_keep_at(bs, bucket + 1, at)
    ELSE [ret |-> None, bucket |-> bucket, at |-> at]

\* Iter::next: the loop that skips exhausted buckets.
RECURSIVE iter_next(_, _, _)
iter_next(bs, bucket, at) ==
    IF bucket < Len(bs)
    THEN IF at < Len(bs[bucket + 1])
         THEN [ret |-> Some(bs[bucket + 1][at + 1]), bucket |-> bucket, at |-> at + 1]
         ELSE iter_next(bs, bucket + 1, 0)
    ELSE [ret |-> None, bucket |-> bucket, at |-> at]

\* ------------------------------------------------------------------ state
\* The abstract map: a function from the keys that are present to their
\* values, and what insert, remove and get mean on it.
EmptyMap == [k \in {} |-> 0]

AbsInsert(m, key, value) ==
    [k \in DOMAIN m \cup {key} |-> IF k = key THEN value ELSE m[k]]

AbsRemove(m, key) == [k \in DOMAIN m \ {key} |-> m[k]]

AbsGet(m, key) == IF key \in DOMAIN m THEN Some(m[key]) ELSE None

NoIter == [live |-> FALSE, bucket |-> 0, at |-> 0]
NoHist == [inserted |-> {}, fresh |-> 0, removed |-> 0]

\* The digest functions considered.  The table uses a key only through ==
\* and through its digest, so renaming the keys maps every run onto a run
\* whose digest function is non-decreasing in the key: those are enough.
Hashers == {h \in [Keys -> 0..MaxHash] :
               \A a, b \in Keys : a <= b => h[a] <= h[b]}

Call(name, key, value, ret, resized) ==
    [name |-> name, key |-> key, value |-> value, ret |-> ret,
     resized |-> resized]

\* HashMap::new, with the digest function of this run.
Init ==
    /\ hasher \in Hashers
    /\ buckets = <<>>
    /\ len = 0
    /\ iter = NoIter
    /\ yielded = <<>>
    /\ op = Call("new", 0, 0, None, FALSE)
    /\ panicked = FALSE
    /\ hist = NoHist
    /\ amap = EmptyMap

\* The map as it stands.
Self == Map(buckets, len)

\* A call that needs &mut self: no Iter borrows the map.
Mutable == ~panicked /\ ~iter.live

InsertStep(key, value) ==
    LET r == insert(hasher, Self, key, value)
    IN  /\ Mutable
        /\ buckets' = r.buckets
        /\ len' = r.len
        /\ panicked' = r.panic
        /\ op' = Call("insert", key, value, r.ret, r.resized)
        /\ amap' = AbsInsert(amap, KeyOf(key), value)
        /\ UNCHANGED <<hasher, iter, yielded>>

RemoveStep(key) ==
    LET r == remove(hasher, Self, key)
    IN  /\ Mutable
        /\ buckets' = r.buckets
        /\ len' = r.len
        /\ panicked' = r.panic
        /\ op' = Call("remove", key, 0, r.ret, FALSE)
        /\ amap' = AbsRemove(amap, KeyOf(key))
        /\ UNCHANGED <<hasher, iter, yielded>>

Insert == \E key \in Keys, value \in Vals :
              InsertStep(key, value) /\ UNCHANGED hist

Remove == \E key \in Keys : RemoveStep(key) /\ UNCHANGED hist

\* The calls on &self.  They are taken while no Iter is live; a shared
\* borrow would allow them during an iteration too, where they change
\* neither the map nor the Iter.
Get == \E key \in Keys :
    /\ Mutable
    /\ op' = Call("get", key, 0, get(hasher, Self, key), FALSE)
    /\ UNCHANGED <<hasher, buckets, len, iter, yielded, panicked, hist, amap>>

ContainsKey == \E key \in Keys :
    /\ Mutable
    /\ op' = Call("contains_key", key, 0,
                  Some(contains_key(hasher, Self, key)), FALSE)
    /\ UNCHANGED <<hasher, buckets, len, iter, yielded, panicked, hist, amap>>

LenCall ==
    /\ Mutable
    /\ op' = Call("len", 0, 0, Some(map_len(Self)), FALSE)
    /\ UNCHANGED <<hasher, buckets, len, iter, yielded, panicked, hist, amap>>

IsEmpty ==
    /\ Mutable
    /\ op' = Call("is_empty", 0, 0, Some(is_empty(Self)), FALSE)
    /\ UNCHANGED <<hasher, buckets, len, iter, yielded, panicked, hist, amap>>

\* IntoIterator for &HashMap: a fresh Iter at bucket 0, position 0.
IntoIter ==
    /\ Mutable
    /\ iter' = [live |-> TRUE, bucket |-> 0, at |-> 0]
    /\ yielded' = <<>>
    /\ op' = Call("into_iter", 0, 0, None, FALSE)
    /\ UNCHANGED <<hasher, buckets, len, panicked, hist, amap>>

\* One call of Iter::next.
IterNext ==
    LET r == iter_next(buckets, iter.bucket, iter.at)
    IN  /\ ~panicked
        /\ iter.live
        /\ iter' = [live |-> TRUE, bucket |-> r.bucket, at |-> r.at]
        /\ yielded' = IF r.ret = None THEN yielded ELSE Append(yielded, r.ret[1])
        /\ op' = Call("next", 0, 0, r.ret, FALSE)
        /\ UNCHANGED <<hasher, buckets, len, panicked, hist, amap>>

\* The Iter goes out of scope and the borrow of the map ends.
IterDrop ==
    /\ ~panicked
    /\ iter.live
    /\ iter' = NoIter
    /\ yielded' = <<>>
    /\ op' = Call("drop_iter", 0, 0, None, FALSE)
    /\ UNCHANGED <<hasher, buckets, len, panicked, hist, amap>>

Next ==
    \/ Insert
    \/ Remove
    \/ Get
    \/ ContainsKey
    \/ LenCall
    \/ IsEmpty
    \/ IntoIter
    \/ IterNext
    \/ IterDrop

Spec == Init /\ [][Next]_vars

\* ------------------------------------------------- the map with a history
\* The same insert and remove, with the history of the calls kept in hist:
\* the set of keys ever passed to insert, the number of inserts that returned
\* None, and the number of removes that returned a pair.  The removes are
\* capped by MaxRemoved to keep the counters finite.
InsertH == \E key \in Keys, value \in Vals :
    /\ InsertStep(key, value)
    /\ hist' = [hist EXCEPT
                   !.inserted = @ \cup {key},
                   !.fresh = IF op'.ret = None /\ ~panicked' THEN @ + 1 ELSE @]

RemoveH == \E key \in Keys :
    /\ hist.removed < MaxRemoved
    /\ RemoveStep(key)
    /\ hist' = [hist EXCEPT
                   !.removed = IF op'.ret # None THEN @ + 1 ELSE @]

NextH ==
    \/ InsertH
    \/ RemoveH
    \/ LenCall

SpecHist == Init /\ [][NextH]_vars

\* --------------------------------------------------- the map of one chain
\* The same insert and remove with one key more than Keys, under digest
\* functions that send the keys of Keys to one value, and the additional key
\* to the same value or to another: chains of three and more pairs and every
\* position of a removal in them occur, with and without a pair in another
\* chain.
KeysC == 1..(MaxKey + 1)

HashersC == {[k \in KeysC |-> IF k > MaxKey THEN d ELSE 0] : d \in 0..1}

InitC ==
    /\ hasher \in HashersC
    /\ buckets = <<>>
    /\ len = 0
    /\ iter = NoIter
    /\ yielded = <<>>
    /\ op = Call("new", 0, 0, None, FALSE)
    /\ panicked = FALSE
    /\ hist = NoHist
    /\ amap = EmptyMap

InsertC == \E key \in KeysC, value \in Vals :
               InsertStep(key, value) /\ UNCHANGED hist

RemoveC == \E key \in KeysC : RemoveStep(key) /\ UNCHANGED hist

NextC ==
    \/ InsertC
    \/ RemoveC

SpecChain == InitC /\ [][NextC]_vars

\* ---------------------------------------------- the map with key objects
\* The same insert and remove, insert called with both key objects of every
\* key of Keys: k and the equal object -k.  The digests are 1 or 2 (so that keys
\* collide or not, and a doubling moves a pair or not), non-decreasing in
\* the key as in Hashers.
KeyObjs == Keys \cup {0 - k : k \in Keys}

HashersK == {h \in [Keys -> 1..2] :
                \A a, b \in Keys : a <= b => h[a] <= h[b]}

InitK ==
    /\ hasher \in HashersK
    /\ buckets = <<>>
    /\ len = 0
    /\ iter = NoIter
    /\ yielded = <<>>
    /\ op = Call("new", 0, 0, None, FALSE)
    /\ panicked = FALSE
    /\ hist = NoHist
    /\ amap = EmptyMap

InsertK == \E key \in KeyObjs, value \in Vals :
               InsertStep(key, value) /\ UNCHANGED hist

RemoveK == \E key \in Keys : RemoveStep(key) /\ UNCHANGED hist

NextK ==
    \/ InsertK
    \/ RemoveK

SpecKey == InitK /\ [][NextK]_vars

\* ======================================================== stored contents
\* The places <<bucket, position>> (1-based) of the bucket array.
Slots(bs) == UNION {{<<i, j>> : j \in 1..Len(bs[i])} : i \in 1..Len(bs)}

\* The set of pairs stored in the chains.
Pairs(bs) == {bs[s[1]][s[2]] : s \in Slots(bs)}

\* The places where key is stored.
SlotsOf(bs, key) ==
    {s \in Slots(bs) : KeyOf(bs[s[1]][s[2]][1]) = KeyOf(key)}

Stored(bs, key) == SlotsOf(bs, key) # {}

RECURSIVE ChainSum(_)
ChainSum(bs) == IF Len(bs) = 0 THEN 0 ELSE Len(Head(bs)) + ChainSum(Tail(bs))

\* ================================================================= claims

\* C1 (round trip): right after insert(k, v), get(k) returns Some(v) and
\* contains_key(k) is true, whether k was present before or not and whether
\* the insert resized or not.
C1_RoundTrip ==
    (op.name = "insert" /\ ~panicked) =>
        /\ get(hasher, Self, op.key) = Some(op.value)
        /\ contains_key(hasher, Self, op.key)

\* An insert that updated a present key to a different value and resized.
C1_Witness ==
    /\ op.name = "insert" /\ ~panicked
    /\ op.resized
    /\ op.ret # None /\ op.ret # Some(op.value)
    /\ get(hasher, Self, op.key) = Some(op.value)

\* C2 (update semantics): insert(k, v) on a stored key returns Some of the
\* value stored for k and leaves len unchanged; on a key that is not stored
\* it returns None and increases len by exactly one.
C2_UpdateSemantics ==
    [][(op'.name = "insert" /\ ~panicked') =>
          IF Stored(buckets, op'.key)
          THEN /\ op'.ret # None
               /\ <<op'.key, op'.ret[1]>> \in Pairs(buckets)
               /\ len' = len
          ELSE /\ op'.ret = None
               /\ len' = len + 1]_vars

\* An insert that updated one of at least two stored keys.
C2_Witness ==
    /\ op.name = "insert" /\ ~panicked
    /\ op.ret # None /\ op.ret # Some(op.value)
    /\ len >= 2

\* C3 (remove): after remove(k), get(k) is None and contains_key(k) is
\* false; when k was stored, remove returns the stored pair and len drops by
\* exactly one; when it was not, remove returns None and len is unchanged.
C3_RemoveAbsence ==
    [][(op'.name = "remove" /\ ~panicked') =>
          /\ get(hasher, Map(buckets', len'), op'.key) = None
          /\ ~contains_key(hasher, Map(buckets', len'), op'.key)
          /\ IF Stored(buckets, op'.key)
             THEN /\ op'.ret # None
                  /\ op'.ret[1] \in Pairs(buckets)
                  /\ op'.ret[1][1] = op'.key
                  /\ len' = len - 1
             ELSE /\ op'.ret = None
                  /\ len' = len]_vars

\* A remove of a stored key that shared its chain with another key.
C3_Witness ==
    /\ op.name = "remove" /\ ~panicked
    /\ op.ret # None
    /\ \E i \in 1..Len(buckets) :
           /\ Len(buckets[i]) >= 1
           /\ hash_mod(hasher, op.key, Len(buckets)) = i - 1
\* C4 as stated (size): len() equals the number of distinct keys ever
\* inserted minus the number of removes that returned a pair.
C4_DistinctKeysMinusRemoved ==
    ~panicked =>
        /\ len = Cardinality(hist.inserted) - hist.removed
        /\ op.name = "len" => op.ret = Some(Cardinality(hist.inserted) - hist.removed)

\* C4 amended (size): len() equals the number of inserts that returned None
\* minus the number of removes that returned a pair.
C4_FreshInsertsMinusRemoved ==
    ~panicked =>
        /\ len = hist.fresh - hist.removed
        /\ op.name = "len" => op.ret = Some(hist.fresh - hist.removed)

\* len() called after a key was inserted, removed and inserted again while
\* another key stayed in the map.
C4_Witness ==
    /\ op.name = "len" /\ ~panicked
    /\ hist.removed >= 1
    /\ hist.fresh > Cardinality(hist.inserted)
    /\ op.ret = Some(2)
\* C5 (iteration completeness): when a fresh iteration over the unmodified
\* map has returned None, it has yielded exactly len pairs with distinct
\* keys, the yielded pairs are the stored pairs, and every yielded value is
\* what get returns for its key.
C5_IterationComplete ==
    (op.name = "next" /\ op.ret = None /\ iter.live) =>
        /\ Len(yielded) = len
        /\ \A i, j \in 1..Len(yielded) : yielded[i][1] = yielded[j][1] => i = j
        /\ {yielded[i] : i \in 1..Len(yielded)} = Pairs(buckets)
        /\ \A i \in 1..Len(yielded) :
               get(hasher, Self, yielded[i][1]) = Some(yielded[i][2])

\* A finished iteration over a map with an empty bucket followed by a
\* non-empty one and with a chain of two pairs.
C5_Witness ==
    /\ op.name = "next" /\ op.ret = None /\ iter.live
    /\ Len(yielded) >= 2
    /\ \E i \in 1..Len(buckets) : Len(buckets[i]) >= 2
    /\ \E i, j \in 1..Len(buckets) :
           i < j /\ Len(buckets[i]) = 0 /\ Len(buckets[j]) > 0

\* C6 (growth conservation): the resize inside an insert leaves the stored
\* mapping and len as they were: the same pairs, each stored as often as
\* before, get of every key unchanged, len unchanged; and after the whole
\* insert every other key is still retrievable with its value.
C6_GrowthConservation ==
    [][(op'.name = "insert" /\ op'.resized) =>
          LET before == Self
              after == resize_buckets(hasher, Self)
          IN  /\ after.len = before.len
              /\ ChainSum(after.buckets) = ChainSum(before.buckets)
              /\ Pairs(after.buckets) = Pairs(before.buckets)
              /\ \A k \in Keys :
                     /\ Cardinality(SlotsOf(after.buckets, k))
                            = Cardinality(SlotsOf(before.buckets, k))
                     /\ get(hasher, after, k) = get(hasher, before, k)
              /\ \A k \in Keys \ {op'.key} :
                     get(hasher, Map(buckets', len'), k) = get(hasher, before, k)]_vars

\* An insert that doubled an array of two buckets into four, with the
\* rehashed pairs spread over more than one chain.
C6_Witness ==
    /\ op.name = "insert" /\ ~panicked
    /\ op.resized
    /\ Len(buckets) = 4
    /\ len >= 2
    /\ Cardinality({i \in 1..Len(buckets) : Len(buckets[i]) > 0}) >= 2

\* C7 (no duplicate keys): every key is stored in at most one place of the
\* bucket array.
C7_NoDuplicateKeys ==
    \A k \in Keys : Cardinality(SlotsOf(buckets, k)) <= 1

\* A resizing insert into a map that then holds a chain of two keys.
C7_Witness ==
    /\ op.name = "insert" /\ ~panicked
    /\ op.resized
    /\ len >= 2
    /\ \E i \in 1..Len(buckets) : Len(buckets[i]) >= 2
    /\ \A k \in Keys : Cardinality(SlotsOf(buckets, k)) <= 1

\* C8 (count): len is the sum of the lengths of the chains.
C8_LenIsChainSum ==
    len = ChainSum(buckets)

\* A remove that took one of two stored pairs.
C8_Witness ==
    /\ op.name = "remove" /\ op.ret # None
    /\ len = 1
    /\ ChainSum(buckets) = 1

\* C9 (buckets exist): when len > 0 the bucket array is not empty.
C9_BucketsWhenNonEmpty ==
    len > 0 => Len(buckets) > 0

\* The first insert into a new map: the array materializes with the entry.
C9_Witness ==
    /\ op.name = "insert" /\ ~panicked
    /\ op.resized
    /\ len = 1
    /\ Len(buckets) = 1

\* C10 (absence): get, contains_key and remove of a key that is not stored
\* return None, false and None, do not panic, and leave buckets and len as
\* they were; also on a new map without buckets.
C10_AbsenceInBand ==
    [][(op'.name \in {"get", "contains_key", "remove"}
            /\ ~Stored(buckets, op'.key)) =>
          /\ ~panicked'
          /\ op'.ret = IF op'.name = "contains_key" THEN Some(FALSE) ELSE None
          /\ buckets' = buckets
          /\ len' = len]_vars

\* A remove of a key on a map without buckets.
C10_Witness ==
    /\ op.name = "remove" /\ ~panicked
    /\ op.ret = None
    /\ Len(buckets) = 0
    /\ len = 0
\* C11 (the expect in insert never fires): after every insert the call has
\* not panicked, the bucket array is not empty, and get_bucket of the key is
\* Some(index) with index below the bucket count.
C11_InsertNeverPanics ==
    op.name = "insert" =>
        /\ ~panicked
        /\ Len(buckets) > 0
        /\ get_bucket(hasher, Self, op.key) # None
        /\ get_bucket(hasher, Self, op.key)[1] \in 0..(Len(buckets) - 1)

\* An insert into a map that has buckets but no entries (everything was
\* removed): no resize, and the index is taken in the array that was kept.
C11_Witness ==
    /\ op.name = "insert" /\ ~panicked
    /\ ~op.resized
    /\ len = 1
    /\ Len(buckets) >= 2
    /\ get_bucket(hasher, Self, op.key) # None

\* C12 (iteration terminates): a live Iter over the unmodified map has
\* yielded at most len pairs; while it has yielded fewer than len the next
\* call yields a pair; once next has returned None it has yielded exactly len
\* pairs, it stands past the last bucket, and a further call returns None.
C12_IterationTerminates ==
    iter.live =>
        /\ Len(yielded) <= len
        /\ Len(yielded) < len =>
               iter_next(buckets, iter.bucket, iter.at).ret # None
        /\ (op.name = "next" /\ op.ret = None) =>
               /\ Len(yielded) = len
               /\ iter.bucket = Len(buckets)
               /\ iter_next(buckets, iter.bucket, iter.at).ret = None

\* An iteration that ended on a map with several buckets, the last of them
\* empty.
C12_Witness ==
    /\ iter.live
    /\ op.name = "next" /\ op.ret = None
    /\ Len(buckets) >= 2
    /\ Len(buckets[Len(buckets)]) = 0
    /\ Len(yielded) = len /\ len >= 1

\* C13 (resize trigger): an insert resizes exactly when, before the call,
\* the bucket array is empty or len > (3 * bucket_count) / 4 in integer
\* division, whether the key is stored or not; the bucket count changes
\* exactly then; and the pair of the key sits in chain hash(key) mod the
\* bucket count after the call.
C13_ResizeTrigger ==
    [][(op'.name = "insert" /\ ~panicked') =>
          LET trigger == \/ Len(buckets) = 0
                         \/ len > (3 * Len(buckets)) \div 4
          IN  /\ op'.resized <=> trigger
              /\ Len(buckets') # Len(buckets) <=> trigger
              /\ \E s \in Slots(buckets') :
                     /\ buckets'[s[1]][s[2]] = <<op'.key, op'.value>>
                     /\ s[1] - 1 = hasher[op'.key] % Len(buckets')]_vars

\* An insert of a stored key that resized two buckets into four.
C13_Witness ==
    /\ op.name = "insert" /\ ~panicked
    /\ op.resized
    /\ op.ret # None
    /\ Len(buckets) = 4
    /\ len = 2
\* 2^k for the bucket counts that occur.
IsPowerOfTwo(n) == \E k \in 0..(MaxKey + 2) : n = 2 ^ k

\* C14 (bucket-count evolution): a new map has zero buckets; the bucket
\* count changes only in an insert, from 0 to 1 or from n to 2n; so it never
\* decreases and is always 0 or a power of two.
C14_BucketCountEvolution ==
    /\ Len(buckets) = 0
    /\ [][/\ Len(buckets') # Len(buckets) =>
                /\ op'.name = "insert"
                /\ \/ Len(buckets) = 0 /\ Len(buckets') = 1
                   \/ Len(buckets) > 0 /\ Len(buckets') = 2 * Len(buckets)
          /\ Len(buckets') >= Len(buckets)
          /\ Len(buckets') = 0 \/ IsPowerOfTwo(Len(buckets'))]_vars

\* A remove that emptied a map of four buckets, which stay.
C14_Witness ==
    /\ op.name = "remove" /\ op.ret # None
    /\ len = 0
    /\ Len(buckets) = 4

\* C15 (placement): every pair (k, v) stored in chain i has
\* i = hash(k) mod bucket count, so that the chain get, remove and insert
\* search is the one that holds the key.
C15_Placement ==
    \A s \in Slots(buckets) :
        /\ s[1] - 1 = hasher[KeyOf(buckets[s[1]][s[2]][1])] % Len(buckets)
        /\ get_bucket(hasher, Self, buckets[s[1]][s[2]][1]) = Some(s[1] - 1)

\* A resize into four buckets that moved a pair into the upper half of the
\* array.
C15_Witness ==
    /\ op.name = "insert" /\ op.resized
    /\ Len(buckets) = 4
    /\ len = 2
    /\ \E s \in Slots(buckets) :
           /\ s[1] >= 3
           /\ buckets[s[1]][s[2]][1] # op.key

\* The chains of the bucket array one after the other, in bucket order.
RECURSIVE ConcatChains(_, _)
ConcatChains(bs, i) ==
    IF i > Len(bs) THEN <<>> ELSE bs[i] \o ConcatChains(bs, i + 1)

\* C16 (iteration order): what a live Iter over the unmodified map has
\* yielded is a prefix of the chains concatenated in bucket order, and once
\* next has returned None it is the whole concatenation.
C16_IterationOrder ==
    iter.live =>
        LET all == ConcatChains(buckets, 1)
        IN  /\ Len(yielded) <= Len(all)
            /\ yielded = SubSeq(all, 1, Len(yielded))
            /\ (op.name = "next" /\ op.ret = None) => yielded = all

\* A finished iteration over two non-empty chains with an empty bucket
\* between them.
C16_Witness ==
    /\ iter.live
    /\ op.name = "next" /\ op.ret = None
    /\ Len(yielded) = 2
    /\ \E i, j, k \in 1..Len(buckets) :
           /\ i < j /\ j < k
           /\ Len(buckets[i]) = 1 /\ Len(buckets[j]) = 0 /\ Len(buckets[k]) = 1
           /\ yielded = <<buckets[i][1], buckets[k][1]>>

\* C17 (swap-with-last removal): remove(k) of the key at position i of a
\* chain of length n leaves that chain with length n - 1, with the former
\* last pair at position i when i was not the last position and every other
\* pair where it was; the other chains are unchanged; the returned pair is
\* the one that was at position i.
C17_SwapWithLast ==
    [][(op'.name = "remove" /\ ~panicked' /\ Stored(buckets, op'.key)) =>
          \E s \in SlotsOf(buckets, op'.key) :
              LET b == s[1]
                  i == s[2]
                  n == Len(buckets[b])
              IN  /\ Len(buckets') = Len(buckets)
                  /\ Len(buckets'[b]) = n - 1
                  /\ i < n => buckets'[b][i] = buckets[b][n]
                  /\ \A j \in 1..(n - 1) : j # i => buckets'[b][j] = buckets[b][j]
                  /\ \A c \in 1..Len(buckets) : c # b => buckets'[c] = buckets[c]
                  /\ op'.ret = Some(buckets[b][i])]_vars

\* A remove of the first pair of a chain of three, after which the other
\* two pairs have changed places: the former last pair was moved into the
\* gap and the middle pair stayed.
C17_Witness ==
    /\ op.name = "remove" /\ op.ret # None /\ ~panicked
    /\ op.key = 1
    /\ Len(buckets) >= 1
    /\ Len(buckets[1]) = 2
    /\ buckets[1][1][1] = 3
    /\ buckets[1][2][1] = 2
    /\ op.ret[1][1] = 1

\* C19 (load bound): while the bucket array is not empty,
\* len <= (3 * bucket_count) / 4 + 1 in integer division.
C19_LoadBound ==
    Len(buckets) > 0 => len <= (3 * Len(buckets)) \div 4 + 1

\* Two entries in two buckets: the bound is met with equality.
C19_Witness ==
    /\ Len(buckets) = 2
    /\ len = 2
    /\ len = (3 * Len(buckets)) \div 4 + 1
\* C20 (refinement of an abstract map): every call returns what the
\* abstract map returns for it; after every step the pairs stored in the
\* chains are the pairs of the abstract map, each stored once, and get of
\* every key is the abstract lookup; insert and remove leave get of every
\* other key as it was.
C20_RefinesAbstractMap ==
    /\ Pairs(buckets) = {}
    /\ [][/\ ~panicked'
          /\ op'.name = "insert" => op'.ret = AbsGet(amap, op'.key)
          /\ op'.name = "remove" =>
                 op'.ret = IF op'.key \in DOMAIN amap
                           THEN Some(<<op'.key, amap[op'.key]>>)
                           ELSE None
          /\ op'.name = "get" => op'.ret = AbsGet(amap, op'.key)
          /\ op'.name = "contains_key" =>
                 op'.ret = Some(op'.key \in DOMAIN amap)
          /\ op'.name = "len" => op'.ret = Some(Cardinality(DOMAIN amap))
          /\ op'.name = "is_empty" => op'.ret = Some(DOMAIN amap = {})
          /\ Pairs(buckets') = {<<k, amap'[k]>> : k \in DOMAIN amap'}
          /\ ChainSum(buckets') = Cardinality(DOMAIN amap')
          /\ \A k \in Keys :
                 get(hasher, Map(buckets', len'), k) = AbsGet(amap', k)
          /\ op'.name \in {"insert", "remove"} =>
                 \A k \in Keys \ {op'.key} :
                     get(hasher, Map(buckets', len'), k) = get(hasher, Self, k)]_vars

\* A get of a key whose chain it shares with another key that was stored
\* before it, in a map that was rehashed into four buckets.
C20_Witness ==
    /\ op.name = "get" /\ op.ret # None
    /\ Len(buckets) = 4
    /\ \E s \in SlotsOf(buckets, op.key) : s[2] = 2
    /\ op.ret = AbsGet(amap, op.key)
\* C18 (key retention on update): an insert with a key object that is equal
\* to a stored key replaces the value only.  In the bucket array as it is
\* after the resize check, the stored pair keeps its place and its key
\* object, the key object passed in is not stored, the old value is
\* returned; a remove right after returns the stored key object with the new
\* value, and so does the traversal of the chains.
C18_KeyRetention ==
    [][(op'.name = "insert" /\ ~panicked' /\ Stored(buckets, op'.key)) =>
          LET mid == IF op'.resized
                     THEN resize_buckets(hasher, Self).buckets
                     ELSE buckets
              post == Map(buckets', len')
              all == ConcatChains(buckets', 1)
          IN  \E s \in SlotsOf(mid, op'.key) :
                  LET stored == mid[s[1]][s[2]]
                  IN  /\ stored \in Pairs(buckets)
                      /\ op'.ret = Some(stored[2])
                      /\ buckets' = [mid EXCEPT ![s[1]][s[2]] =
                                        <<stored[1], op'.value>>]
                      /\ remove(hasher, post, op'.key).ret
                             = Some(<<stored[1], op'.value>>)
                      /\ \E i \in 1..Len(all) :
                             all[i] = <<stored[1], op'.value>>
                      /\ \A p \in Pairs(buckets') :
                             KeyOf(p[1]) = KeyOf(op'.key) => p[1] = stored[1]]_vars

\* An update through a key object other than the stored one, with a new
\* value: the stored key object is still the old one.
C18_Witness ==
    /\ op.name = "insert" /\ ~panicked
    /\ op.ret # None /\ op.ret # Some(op.value)
    /\ op.key < 0
    /\ <<0 - op.key, op.value>> \in Pairs(buckets)
    /\ len = 2

====
